---- MODULE Spec2Model ----
(***************************************************************************)
(* Target-size PDF compression engine of LocalPDF:                         *)
(*   core/compressor.py   PDFCompressor.compress and its two searches      *)
(* One request is modelled: compress() runs step by step (pc), while the   *)
(* owner of the cancel flag may set it between any two steps.              *)
(*                                                                         *)
(* Sizes are abstract byte counts 1..MaxSize.  Scales are exact rationals  *)
(* in units of 1/5120 (0.05 = 256 units, 1.0 = 5120 units), so that eight  *)
(* successive midpoints (lo + hi) / 2 stay integral.                       *)
(* compression_ratio (a float derived from two sizes) is not modelled.     *)
(***************************************************************************)
EXTENDS Integers, Sequences, FiniteSets, TLC

\* ---------------------------------------------------------------- bounds
MaxSize == 3
MaxQuality == 4
MaxIterations == 2
MaxImages == 2
MaxWorkers == 2

\* ------------------------------------------------------ program constants
ScaleOne == 5120
ScaleStep == 256
ScaleIterCap == 8
QualityPctBase == 20
QualityPctSpan == 50
ScalePctBase == 70
ScalePctSpan == 25
SmallImageBytes == 4096
UpdateStreamCompress == 0
JpegBitsPerComponent == 8

Sizes == 1..MaxSize
Qualities == 1..MaxQuality
Tolerances == {0, 1}
\* the target sits just below the largest size, so that a size can be under the
\* target by more than the tolerance, within it, equal to the target, or over it
Targets == {MaxSize - 1}
\* (min_scale, max_scale) pairs: (0.1, 1.0) the default, (0.5, 0.5), (1.0, 1.0)
ScaleBounds == { <<512, 5120>>, <<2560, 2560>>, <<5120, 5120>> }

\* Images of the baseline document, by what the re-encoder does with them:
\* "photo" is re-encoded, "tiny" has fewer than 4096 raw bytes, "mask" is a
\* 1-bit /ImageMask.  A document is the sequence of its image objects.
Docs == { <<>>, <<"tiny">>, <<"mask">>, <<"tiny", "photo">> }

Configs ==
    { c \in [ target_size_bytes : Targets, min_quality : Qualities,
              max_quality : Qualities, min_scale : {512, 2560, 5120},
              max_scale : {2560, 5120}, binary_search_tolerance_bytes : Tolerances,
              max_iterations : 1..MaxIterations ] :
        /\ c.min_quality <= c.max_quality
        /\ <<c.min_scale, c.max_scale>> \in ScaleBounds }

\* The input path, by what the file system and the PDF library make of it:
\* "missing" has no size to read, "unopenable" makes fitz.open raise,
\* "encrypted" opens with doc.is_encrypted set, "pdf" opens.
InputFiles == {"missing", "unopenable", "encrypted", "pdf"}

VARIABLES
    pc,             \* position of compress()
    inputFile,      \* the file at config.input_path
    config,         \* CompressionConfig
    cancelled,      \* the flag is_cancelled() reads
    cancelAt,       \* pc at which the flag was set ("" while unset)
    cancelTrials,   \* number of finished re-encodes when the flag was set
    original_size, pages, lossless_bytes, images, image_count,
    source_bytes,   \* the searches' source_bytes parameter
    lo, hi, mid, iteration, best_result, best_param,
    result_bytes, ret_param,    \* what the last search returned
    result,         \* the CompressionResult returned
    outFile, writes,            \* the output path and the calls of _write_bytes
    reports,        \* percentages passed to on_progress
    trials,         \* every call of _rebuild_pdf_with_quality
    losslessRuns,   \* calls of _apply_lossless_optimization
    inventoryRuns,  \* calls of _get_image_xrefs_from_bytes
    qsize, ssize,   \* the codec: size at full scale per quality, and at reduced scale
    \* one call of _rebuild_pdf_with_quality, image by image
    rpc,            \* position of the call ("idle" while compress() is modelled)
    quality, scale, \* its arguments
    pollPassed,     \* is_cancelled is not None
    pictures,       \* what extract_image and PIL find in each image object
    softMask,       \* xref of the image that is the /SMask of the one before it, or 0
    image_xrefs,    \* the xrefs page.get_images lists
    objs,           \* the image objects of doc: stream and dictionary keys
    todo,           \* the xrefs the loop has still to visit, ascending
    fate,           \* what the loop did with each xref
    processed,      \* the counter of that name
    out             \* what the call returned

ReencodeVars == << rpc, quality, scale, pollPassed, pictures, softMask, image_xrefs,
                   objs, todo, fate, processed, out >>

\* the callers of compress(): CompressWorker.run, and a second request
\* made on the output of the first
VARIABLES
    signal,         \* what CompressWorker.run has emitted ("pending" before)
    run,            \* 1 for the first request, 2 for the request on its output
    earlier         \* the result and the output file of the first request

\* CompressWidget and the workers it has started
VARIABLES
    current_file,   \* self._current_file ("" when none)
    button,         \* self._compress_btn.isEnabled()
    worker,         \* self._worker: 0 for None, else the worker's number
    workers,        \* every CompressWorker started, in order
    disk,           \* the output names that exist in the input's directory
    ui              \* what the UI thread is in: "idle" or "waiting" (wait(5000))

WidgetVars == << current_file, button, worker, workers, disk, ui >>

CallerVars == << signal, run, earlier, WidgetVars >>

vars == << ReencodeVars, CallerVars, pc, inputFile, config, cancelled, cancelAt, cancelTrials, original_size, pages, lossless_bytes,
           images, image_count, source_bytes, lo, hi, mid, iteration, best_result,
           best_param, result_bytes, ret_param, result, outFile, writes, reports,
           trials, losslessRuns, inventoryRuns, qsize, ssize >>

\* ------------------------------------------------------------ byte streams
NoBytes == [tag |-> "none", src |-> "none", q |-> 0, s |-> 0, size |-> 0]
Absent == [tag |-> "absent", src |-> "none", q |-> 0, s |-> 0, size |-> 0]
Partial == [tag |-> "partial", src |-> "none", q |-> 0, s |-> 0, size |-> 0]
LosslessBytes(n) == [tag |-> "lossless", src |-> "input", q |-> 0, s |-> 0, size |-> n]

EmptyFn == [x \in {} |-> 0]

\* ------------------------------------------------------------ the result
BlankResult ==
    [ success |-> FALSE, output_path |-> "", original_size |-> 0,
      compressed_size |-> 0, quality_used |-> 0, scale_used |-> ScaleOne,
      pages_processed |-> 0, images_found |-> 0, error_message |-> "",
      already_small |-> FALSE, target_impossible |-> FALSE,
      minimum_achievable_size |-> 0, text_only |-> FALSE ]

\* what a call of _rebuild_pdf_with_quality returns: None, or the saved document
NoDocument == [tag |-> "none", objs |-> <<>>]
SavedDocument(os) == [tag |-> "pdf", objs |-> os]

\* no call of _rebuild_pdf_with_quality is followed image by image
ReencoderIdle ==
    /\ rpc = "idle"
    /\ quality = 0 /\ scale = 0
    /\ pollPassed = FALSE
    /\ pictures = <<>>
    /\ softMask = 0
    /\ image_xrefs = {}
    /\ objs = <<>>
    /\ todo = <<>>
    /\ fate = <<>>
    /\ processed = 0
    /\ out = NoDocument

NoEarlier == [result |-> BlankResult, size |-> 0, images |-> <<>>]

\* CompressWidget.__init__: no file chosen, button disabled, no worker
WidgetIdle ==
    /\ current_file = ""
    /\ button = FALSE
    /\ worker = 0
    /\ workers = <<>>
    /\ disk = {}
    /\ ui = "idle"

\* run() has not emitted; no request came before this one
CallerIdle ==
    /\ signal = "pending"
    /\ run = 1
    /\ earlier = NoEarlier
    /\ WidgetIdle

\* compress() has not done anything yet
RequestBlank ==
    /\ cancelled = FALSE
    /\ cancelAt = ""
    /\ cancelTrials = 0
    /\ original_size = 0
    /\ pages = 0
    /\ lossless_bytes = NoBytes
    /\ images = <<>>
    /\ image_count = 0
    /\ source_bytes = NoBytes
    /\ lo = 0 /\ hi = 0 /\ mid = 0 /\ iteration = 0
    /\ best_result = NoBytes
    /\ best_param = 0
    /\ result_bytes = NoBytes
    /\ ret_param = 0
    /\ result = BlankResult
    /\ outFile = Absent
    /\ writes = 0
    /\ reports = <<>>
    /\ trials = <<>>
    /\ losslessRuns = 0
    /\ inventoryRuns = 0
    /\ qsize = EmptyFn
    /\ ssize = EmptyFn

Init ==
    /\ pc = "start"
    /\ inputFile \in InputFiles
    /\ config \in Configs
    /\ RequestBlank
    /\ ReencoderIdle
    /\ CallerIdle

\* ------------------------------------------------------------- helpers
Abs(x) == IF x < 0 THEN -x ELSE x
Min(a, b) == IF a <= b THEN a ELSE b

\* _check_cancel(is_cancelled)
CheckCancel == cancelled

\* _report(on_progress, step, 100, msg)
Report(log, step) == Append(log, step)

\* mutant: the failure result is built without its message
FailureWithoutMessage(msg) == BlankResult

\* CompressionResult(success=False, error_message=msg)
Failure(msg) == [BlankResult EXCEPT !.error_message = msg]

\* _get_image_xrefs_from_bytes: every image object of every page, sorted
GetImageXrefs(doc) == 1..Len(doc)

\* the images _rebuild_pdf_with_quality does not skip
Eligible(doc) == { x \in 1..Len(doc) : doc[x] = "photo" }

\* what _write_bytes can do: write all of data, fail in open(), fail in write()
WriteOutcomes == {"written", "open_fails", "write_fails"}

\* self._write_bytes(config.output_path, data); return res
WriteBytesAndReturn(data, res) ==
    \E o \in WriteOutcomes :
        /\ writes' = writes + 1
        /\ outFile' = CASE o = "written" -> data
                        [] o = "open_fails" -> outFile
                        [] o = "write_fails" -> Partial
        /\ IF o = "written"
             THEN pc' = "done" /\ result' = res
             ELSE pc' = "raised" /\ result' = result

\* return res, without a write
Return(res) ==
    /\ pc' = "done"
    /\ result' = res
    /\ UNCHANGED << outFile, writes >>

\* an exception leaves compress()
Raise ==
    /\ pc' = "raised"
    /\ UNCHANGED << result, outFile, writes >>

\* the sizes one call _rebuild_pdf_with_quality(src, q, s) can return
TrialSizes(q, s) ==
    IF s >= ScaleOne THEN {qsize[q]}
    ELSE IF <<q, s>> \in DOMAIN ssize THEN {ssize[<<q, s>>]}
    ELSE IF Eligible(images) = {} THEN {qsize[q]}
    ELSE Sizes

\* the byte stream _rebuild_pdf_with_quality(src, q, s) returns
Rebuild(src, q, s, n) == [tag |-> "trial", src |-> src.tag, q |-> q, s |-> s, size |-> n]

Learn(q, s, n) == IF s >= ScaleOne THEN ssize ELSE (<<q, s>> :> n) @@ ssize

Trial(phase, src, q, s, n) == [phase |-> phase, src |-> src, q |-> q, s |-> s, size |-> n]

SearchVars == << lo, hi, mid, iteration, best_result, best_param >>

\* what os.path.getsize(config.input_path) can give, and the image listings
\* the input can hold: anything for a first request, the written file's for a
\* request on the output of the first
InputSizes == IF run = 2 THEN {earlier.size} ELSE Sizes
InputDocs == IF run = 2 THEN {earlier.images} ELSE Docs

\* mutant: the already-small test is strict
AlreadySmallStrict(sz) == sz < config.target_size_bytes

\* original_size <= config.target_size_bytes
AlreadySmall(sz) == sz <= config.target_size_bytes

\* mutant: a search's candidate is ignored
HasCandidateNever(bytes) == FALSE

\* result_bytes is not None
HasCandidate(bytes) == bytes # NoBytes

\* ------------------------------------------------ compress(), lines 62-75
GetSize ==
    /\ pc = "start"
    /\ UNCHANGED << inputFile, ReencodeVars, CallerVars, config, cancelled, cancelAt, cancelTrials, pages, lossless_bytes, images,
                    image_count, source_bytes, SearchVars, result_bytes, ret_param,
                    trials, losslessRuns, inventoryRuns, qsize, ssize >>
    /\ \/ /\ inputFile = "missing"    \* os.path.getsize raises
          /\ original_size' = 0
          /\ reports' = reports
          /\ Raise
       \/ \E sz \in InputSizes :
            /\ inputFile # "missing"
            /\ original_size' = sz
            /\ IF AlreadySmall(sz)
                 THEN /\ reports' = reports
                      /\ Return([BlankResult EXCEPT !.success = TRUE,
                                    !.output_path = "input",
                                    !.original_size = sz,
                                    !.compressed_size = sz,
                                    !.already_small = TRUE])
                 ELSE /\ reports' = Report(reports, 1)
                      /\ pc' = "open"
                      /\ UNCHANGED << result, outFile, writes >>

\* ------------------------------------------------ compress(), lines 78-93
\* len(doc) of the input
PageCounts == {0, 1}

\* fitz.open(config.input_path) raises
OpenRaises == inputFile = "unopenable"

\* mutant: the encryption flag is not looked at
IsEncryptedIgnored == FALSE

\* doc.is_encrypted
IsEncrypted == inputFile = "encrypted"

Open ==
    /\ pc = "open"
    /\ UNCHANGED << inputFile, ReencodeVars, CallerVars, config, cancelled, cancelAt, cancelTrials, original_size, lossless_bytes,
                    images, image_count, source_bytes, SearchVars, result_bytes,
                    ret_param, trials, losslessRuns, inventoryRuns, qsize, ssize >>
    /\ IF OpenRaises
         THEN /\ UNCHANGED << pages, reports >>
              /\ Return(Failure("Cannot open PDF"))
         ELSE IF IsEncrypted
         THEN /\ UNCHANGED << pages, reports >>
              /\ Return(Failure("PDF is password-protected."))
         ELSE \E p \in PageCounts :
                /\ pages' = p
                /\ reports' = Report(reports, 5)
                /\ IF CheckCancel
                     THEN Return(Failure("Cancelled."))
                     ELSE /\ pc' = "lossless"
                          /\ UNCHANGED << result, outFile, writes >>

\* ----------------------------------------------- compress(), lines 95-112
Lossless ==
    /\ pc = "lossless"
    /\ UNCHANGED << inputFile, ReencodeVars, CallerVars, config, cancelled, cancelAt, cancelTrials, original_size, pages, image_count,
                    source_bytes, SearchVars, result_bytes, ret_param, trials,
                    inventoryRuns, qsize, ssize >>
    /\ losslessRuns' = losslessRuns + 1
    /\ \/ /\ UNCHANGED << lossless_bytes, images, reports >>
          /\ Raise                     \* fitz.open or doc.save raises
       \/ \E n \in Sizes, d \in InputDocs :
            /\ lossless_bytes' = LosslessBytes(n)
            /\ images' = d
            /\ reports' = Report(reports, 15)
            /\ IF n <= config.target_size_bytes
                 THEN WriteBytesAndReturn(LosslessBytes(n),
                        [BlankResult EXCEPT !.success = TRUE,
                            !.output_path = "output",
                            !.original_size = original_size,
                            !.compressed_size = n,
                            !.quality_used = 100,
                            !.scale_used = ScaleOne,
                            !.pages_processed = pages])
                 ELSE /\ pc' = "inventory"
                      /\ UNCHANGED << result, outFile, writes >>

\* the byte stream compress() hands to both searches and to the final re-encode
BaselineArg == lossless_bytes

\* the codec's size curve over the configured qualities, at full scale; with no
\* image to re-encode every trial saves the same unchanged document
Curves ==
    LET qs == config.min_quality..config.max_quality
    IN  IF Eligible(images) = {}
          THEN { [q \in qs |-> n] : n \in Sizes }
          ELSE [qs -> Sizes]

\* ---------------------------------------------- compress(), lines 115-144
\* and the entry of _binary_search_quality, lines 361-363
Inventory ==
    /\ pc = "inventory"
    /\ UNCHANGED << inputFile, ReencodeVars, CallerVars, config, cancelled, cancelAt, cancelTrials, original_size, pages,
                    lossless_bytes, images, mid, result_bytes, ret_param, trials,
                    losslessRuns, ssize >>
    /\ inventoryRuns' = inventoryRuns + 1
    /\ image_count' = Cardinality(GetImageXrefs(images))
    /\ IF image_count' = 0
         THEN /\ UNCHANGED << reports, source_bytes, lo, hi, iteration,
                              best_result, best_param, qsize >>
              /\ WriteBytesAndReturn(lossless_bytes,
                    [BlankResult EXCEPT !.success = TRUE,
                        !.output_path = "output",
                        !.original_size = original_size,
                        !.compressed_size = lossless_bytes.size,
                        !.pages_processed = pages,
                        !.images_found = 0,
                        !.text_only = TRUE])
         ELSE /\ reports' = Report(reports, 20)
              /\ IF CheckCancel
                   THEN /\ UNCHANGED << source_bytes, lo, hi, iteration,
                                        best_result, best_param, qsize >>
                        /\ Return(Failure("Cancelled."))
                   ELSE /\ qsize' \in Curves
                        /\ source_bytes' = BaselineArg
                        /\ lo' = config.min_quality
                        /\ hi' = config.max_quality
                        /\ best_result' = NoBytes
                        /\ best_param' = config.max_quality
                        /\ iteration' = 0
                        /\ pc' = "q_loop"
                        /\ UNCHANGED << result, outFile, writes >>

\* ------------------------------------ _binary_search_quality, lines 365-394
\* mid = (lo + hi) // 2
QualityMid(l, h) == (l + h) \div 2

\* mutants: the fit test is off by one, or strict
FitsOffByOne(n) == n <= config.target_size_bytes + 1
FitsStrict(n) == n < config.target_size_bytes

\* mutant: a result within the tolerance above the target counts as fitting
FitsWithinTolerance(n) ==
    n <= config.target_size_bytes + config.binary_search_tolerance_bytes

\* result_size <= target_bytes
Fits(n) == n <= config.target_size_bytes

\* mutant: the first fitting result is kept as the candidate
CandidateKeepsFirst(fit, res, best) == IF fit /\ best = NoBytes THEN res ELSE best

\* best_result = result, when the result fits
Candidate(fit, res, best) == IF fit THEN res ELSE best

\* best_result and abs(len(best_result) - target_bytes) <= tolerance
CloseEnough(best) ==
    /\ best # NoBytes
    /\ Abs(best.size - config.target_size_bytes) <= config.binary_search_tolerance_bytes

\* mutant: a quality trial re-encodes the best candidate so far
QualityTrialSourceChained == IF best_result # NoBytes THEN best_result ELSE source_bytes

\* the source a quality trial re-encodes
QualityTrialSource == source_bytes

\* mutant: compress() does not poll the flag after a search
CancelledAfterSearchUnchecked == FALSE

\* if self._check_cancel(is_cancelled), after a search has returned
CancelledAfterSearch == CheckCancel

\* the search returns to compress()
SearchReturns(bytes, param, to) ==
    /\ result_bytes' = bytes
    /\ ret_param' = param
    /\ pc' = to

\* pct = 20 + int(50 * iteration / max_iterations)
QualityPct(i) == QualityPctBase + (QualityPctSpan * i) \div config.max_iterations

QLoop ==
    /\ pc = "q_loop"
    /\ UNCHANGED << inputFile, ReencodeVars, CallerVars, config, cancelled, cancelAt, cancelTrials, original_size, pages,
                    lossless_bytes, images, image_count, source_bytes, lo, hi,
                    iteration, best_result, best_param, result, outFile, writes,
                    trials, losslessRuns, inventoryRuns, qsize, ssize >>
    /\ IF iteration >= config.max_iterations
         THEN /\ SearchReturns(best_result, best_param, "after_q")
              /\ UNCHANGED << mid, reports >>
         ELSE IF CheckCancel
         THEN /\ SearchReturns(NoBytes, 0, "after_q")
              /\ UNCHANGED << mid, reports >>
         ELSE /\ mid' = QualityMid(lo, hi)
              /\ reports' = Report(reports, QualityPct(iteration))
              /\ pc' = "q_trial"
              /\ UNCHANGED << result_bytes, ret_param >>

QTrial ==
    /\ pc = "q_trial"
    /\ UNCHANGED << inputFile, ReencodeVars, CallerVars, config, cancelled, cancelAt, cancelTrials, original_size, pages,
                    lossless_bytes, images, image_count, source_bytes, mid, result,
                    outFile, writes, reports, losslessRuns, inventoryRuns, qsize >>
    /\ \/ /\ trials' = Append(trials,
                         Trial("quality", QualityTrialSource.tag, mid, ScaleOne, 0))
          /\ pc' = "raised"
          /\ UNCHANGED << lo, hi, iteration, best_result, best_param,
                          result_bytes, ret_param, ssize >>
       \/ \E n \in TrialSizes(mid, ScaleOne) :
                LET res == Rebuild(QualityTrialSource, mid, ScaleOne, n)
                    fit == Fits(res.size)
                    best == Candidate(fit, res, best_result)
                    bq == IF fit THEN mid ELSE best_param
                    nlo == IF fit THEN mid + 1 ELSE lo
                    nhi == IF fit THEN hi ELSE mid - 1
                IN  /\ trials' = Append(trials,
                                   Trial("quality", QualityTrialSource.tag, mid, ScaleOne, n))
                    /\ ssize' = Learn(mid, ScaleOne, n)
                    /\ best_result' = best
                    /\ best_param' = bq
                    /\ lo' = nlo
                    /\ hi' = nhi
                    /\ IF CloseEnough(best) \/ nlo > nhi
                         THEN /\ iteration' = iteration
                              /\ SearchReturns(best, bq, "after_q")
                         ELSE /\ iteration' = iteration + 1
                              /\ pc' = "q_loop"
                              /\ UNCHANGED << result_bytes, ret_param >>

\* ---------------------------------------------- compress(), lines 146-173
\* and the entry of _binary_search_scale, lines 409-411
AfterQuality ==
    /\ pc = "after_q"
    /\ UNCHANGED << inputFile, ReencodeVars, CallerVars, config, cancelled, cancelAt, cancelTrials, original_size, pages,
                    lossless_bytes, images, image_count, mid, result_bytes,
                    ret_param, trials, losslessRuns, inventoryRuns, qsize, ssize >>
    /\ IF CancelledAfterSearch
         THEN /\ UNCHANGED << reports, source_bytes, lo, hi, iteration,
                              best_result, best_param >>
              /\ Return(Failure("Cancelled."))
         ELSE IF HasCandidate(result_bytes)
         THEN /\ UNCHANGED << reports, source_bytes, lo, hi, iteration,
                              best_result, best_param >>
              /\ WriteBytesAndReturn(result_bytes,
                    [BlankResult EXCEPT !.success = TRUE,
                        !.output_path = "output",
                        !.original_size = original_size,
                        !.compressed_size = result_bytes.size,
                        !.quality_used = ret_param,
                        !.scale_used = ScaleOne,
                        !.pages_processed = pages,
                        !.images_found = image_count])
         ELSE /\ reports' = Report(reports, 70)
              /\ source_bytes' = BaselineArg
              /\ lo' = config.min_scale
              /\ hi' = config.max_scale
              /\ best_result' = NoBytes
              /\ best_param' = config.max_scale
              /\ iteration' = 0
              /\ pc' = "s_loop"
              /\ UNCHANGED << result, outFile, writes >>

\* ------------------------------------- _binary_search_scale, lines 413-441
\* mutant: the midpoint is taken one step too high
ScaleMidStepUp(l, h) == (l + h) \div 2 + ScaleStep

\* mid = (lo + hi) / 2
ScaleMid(l, h) == (l + h) \div 2

\* the source a scale trial re-encodes
ScaleTrialSource == source_bytes

\* mutant: the scale search always gets the cap as its budget
ScaleIterationsUncapped == ScaleIterCap

\* min(config.max_iterations, 8), the scale search's max_iterations
ScaleIterations == Min(config.max_iterations, ScaleIterCap)

\* mutant: the scale search reports on the quality search's base
ScalePctOnQualityBase(i) == QualityPctBase + (ScalePctSpan * i) \div ScaleIterations

\* pct = 70 + int(25 * iteration / max_iterations)
ScalePct(i) == ScalePctBase + (ScalePctSpan * i) \div ScaleIterations

SLoop ==
    /\ pc = "s_loop"
    /\ UNCHANGED << inputFile, ReencodeVars, CallerVars, config, cancelled, cancelAt, cancelTrials, original_size, pages,
                    lossless_bytes, images, image_count, source_bytes, lo, hi,
                    iteration, best_result, best_param, result, outFile, writes,
                    trials, losslessRuns, inventoryRuns, qsize, ssize >>
    /\ IF iteration >= ScaleIterations
         THEN /\ SearchReturns(best_result, best_param, "after_s")
              /\ UNCHANGED << mid, reports >>
         ELSE IF CheckCancel
         THEN /\ SearchReturns(NoBytes, 0, "after_s")
              /\ UNCHANGED << mid, reports >>
         ELSE /\ mid' = ScaleMid(lo, hi)
              /\ reports' = Report(reports, ScalePct(iteration))
              /\ pc' = "s_trial"
              /\ UNCHANGED << result_bytes, ret_param >>

STrial ==
    /\ pc = "s_trial"
    /\ UNCHANGED << inputFile, ReencodeVars, CallerVars, config, cancelled, cancelAt, cancelTrials, original_size, pages,
                    lossless_bytes, images, image_count, source_bytes, mid, result,
                    outFile, writes, reports, losslessRuns, inventoryRuns, qsize >>
    /\ \/ /\ trials' = Append(trials,
                         Trial("scale", ScaleTrialSource.tag, config.min_quality, mid, 0))
          /\ pc' = "raised"
          /\ UNCHANGED << lo, hi, iteration, best_result, best_param,
                          result_bytes, ret_param, ssize >>
       \/ \E n \in TrialSizes(config.min_quality, mid) :
            LET res == Rebuild(ScaleTrialSource, config.min_quality, mid, n)
                fit == Fits(res.size)
                best == Candidate(fit, res, best_result)
                bs == IF fit THEN mid ELSE best_param
                nlo == IF fit THEN mid + ScaleStep ELSE lo
                nhi == IF fit THEN hi ELSE mid - ScaleStep
            IN  /\ trials' = Append(trials,
                               Trial("scale", ScaleTrialSource.tag, config.min_quality, mid, n))
                /\ ssize' = Learn(config.min_quality, mid, n)
                /\ best_result' = best
                /\ best_param' = bs
                /\ lo' = nlo
                /\ hi' = nhi
                /\ IF CloseEnough(best) \/ nlo > nhi
                     THEN /\ iteration' = iteration
                          /\ SearchReturns(best, bs, "after_s")
                     ELSE /\ iteration' = iteration + 1
                          /\ pc' = "s_loop"
                          /\ UNCHANGED << result_bytes, ret_param >>

\* ---------------------------------------------- compress(), lines 175-194
AfterScale ==
    /\ pc = "after_s"
    /\ UNCHANGED << inputFile, ReencodeVars, CallerVars, config, cancelled, cancelAt, cancelTrials, original_size, pages,
                    lossless_bytes, images, image_count, source_bytes, SearchVars,
                    result_bytes, ret_param, trials, losslessRuns, inventoryRuns,
                    qsize, ssize >>
    /\ IF CancelledAfterSearch
         THEN /\ UNCHANGED reports
              /\ Return(Failure("Cancelled."))
         ELSE IF HasCandidate(result_bytes)
         THEN /\ UNCHANGED reports
              /\ WriteBytesAndReturn(result_bytes,
                    [BlankResult EXCEPT !.success = TRUE,
                        !.output_path = "output",
                        !.original_size = original_size,
                        !.compressed_size = result_bytes.size,
                        !.quality_used = config.min_quality,
                        !.scale_used = ret_param,
                        !.pages_processed = pages,
                        !.images_found = image_count])
         ELSE /\ reports' = Report(reports, 95)
              /\ pc' = "min_trial"
              /\ UNCHANGED << result, outFile, writes >>

\* ---------------------------------------------- compress(), lines 195-212
\* mutant: the minimum is taken to be the lossless size
MinSizeLossless(min_bytes) == lossless_bytes.size

\* min_size = len(min_bytes) if min_bytes else lossless_size
MinSize(min_bytes) ==
    IF min_bytes # NoBytes THEN min_bytes.size ELSE lossless_bytes.size

MinTrial ==
    /\ pc = "min_trial"
    /\ UNCHANGED << inputFile, ReencodeVars, CallerVars, config, cancelled, cancelAt, cancelTrials, original_size, pages,
                    lossless_bytes, images, image_count, source_bytes, SearchVars,
                    result_bytes, ret_param, reports, losslessRuns, inventoryRuns,
                    qsize >>
    /\ \/ /\ trials' = Append(trials,
                         Trial("minimum", BaselineArg.tag, config.min_quality,
                               config.min_scale, 0))
          /\ ssize' = ssize
          /\ Raise
       \/ \E n \in TrialSizes(config.min_quality, config.min_scale) :
            LET min_bytes == Rebuild(BaselineArg, config.min_quality, config.min_scale, n)
                min_size == MinSize(min_bytes)
            IN  /\ trials' = Append(trials,
                               Trial("minimum", BaselineArg.tag, config.min_quality,
                                     config.min_scale, n))
                /\ ssize' = Learn(config.min_quality, config.min_scale, n)
                /\ Return([BlankResult EXCEPT !.original_size = original_size,
                              !.compressed_size = min_size,
                              !.pages_processed = pages,
                              !.images_found = image_count,
                              !.target_impossible = TRUE,
                              !.minimum_achievable_size = min_size,
                              !.error_message = "Cannot compress to target."])

\* ------------------------------------------------- the cancel flag is set
\* (CompressWorker.cancel, from another thread, at any moment of the run)
Cancel ==
    /\ pc \notin {"done", "raised"}
    /\ ~cancelled
    /\ cancelled' = TRUE
    /\ cancelAt' = pc
    /\ cancelTrials' = Len(trials)
    /\ UNCHANGED << pc, inputFile, ReencodeVars, CallerVars, config, original_size, pages, lossless_bytes, images,
                    image_count, source_bytes, SearchVars, result_bytes, ret_param,
                    result, outFile, writes, reports, trials, losslessRuns,
                    inventoryRuns, qsize, ssize >>

Next ==
    \/ GetSize \/ Open \/ Lossless \/ Inventory
    \/ QLoop \/ QTrial \/ AfterQuality
    \/ SLoop \/ STrial \/ AfterScale \/ MinTrial
    \/ Cancel


Spec == Init /\ [][Next]_vars

\* ================== one call of _rebuild_pdf_with_quality, image by image
\* PIL modes of the decoded image: three-channel, gray, CMYK, RGB with alpha,
\* gray with alpha
Modes == {"RGB", "L", "CMYK", "RGBA", "LA"}
AlphaModes == {"RGBA", "LA"}

\* An image object as extract_image, xref_object and Image.open present it:
\* len(img_info["image"]) (0 when extract_image gives nothing), whether the
\* dictionary has /ImageMask true, and the decoded mode, width and height.
Picture(n, mask, m, w, h) ==
    [bytes |-> n, ImageMask |-> mask, mode |-> m, width |-> w, height |-> h]

Pictures ==
    { Picture(SmallImageBytes, FALSE, m, 3, 2) : m \in Modes }
      \cup { Picture(SmallImageBytes, FALSE, "RGB", 1, 1),
              Picture(SmallImageBytes - 1, FALSE, "RGB", 3, 2),
              Picture(0, FALSE, "RGB", 3, 2),
              Picture(SmallImageBytes, TRUE, "L", 3, 2) }

Documents == UNION { [1..n -> Pictures] : n \in 0..MaxImages }

\* the gray images of a document that can be the /SMask of the image before them
SoftMasks(d) == {0} \cup { x \in 2..Len(d) : d[x].mode = "L" /\ ~d[x].ImageMask }

\* page.get_images lists the images the pages draw; an image that is only
\* another image's soft mask may be listed as well (when a page names it too)
Listings(d, sm) == { (1..Len(d)) \ hidden : hidden \in SUBSET ({sm} \ {0}) }

\* scale arguments: 0.1, 0.5, 1.0
ReencodeScales == {512, 2560, ScaleOne}
ReencodeQualities == {1, MaxQuality}

\* the stream of an image object, and what a JPEG buffer holds
BaselineStream(pic) ==
    [ format |-> "baseline", quality |-> 0, width |-> pic.width, height |-> pic.height,
      mode |-> pic.mode,
      alpha |-> IF pic.mode \in AlphaModes THEN "kept" ELSE "none" ]

\* the image object as the lossless baseline holds it
BaselineObject(pic) ==
    [ stream |-> BaselineStream(pic), zlib |-> FALSE, Filter |-> "baseline",
      Width |-> pic.width, Height |-> pic.height, ColorSpace |-> "baseline",
      BitsPerComponent |-> IF pic.ImageMask THEN 1 ELSE JpegBitsPerComponent,
      DecodeParms |-> "baseline" ]

\* the defaults of CompressionConfig, within the bounds
DefaultConfig ==
    [ target_size_bytes |-> MaxSize - 1, min_quality |-> 1, max_quality |-> MaxQuality,
      min_scale |-> 512, max_scale |-> ScaleOne, binary_search_tolerance_bytes |-> 1,
      max_iterations |-> MaxIterations ]

\* sorted(image_xrefs)
SortedXrefs(S) ==
    CHOOSE s \in [1..Cardinality(S) -> S] : \A i, j \in 1..Cardinality(S) : i < j => s[i] < s[j]

InitReencode ==
    /\ pc = "s_trial"
    /\ inputFile = "pdf"
    /\ config = DefaultConfig
    /\ RequestBlank
    /\ CallerIdle
    /\ rpc = "loop"
    /\ quality \in ReencodeQualities
    /\ scale \in ReencodeScales
    /\ pollPassed \in BOOLEAN
    /\ pictures \in Documents
    /\ softMask \in SoftMasks(pictures)
    /\ image_xrefs \in Listings(pictures, softMask)
    /\ objs = [x \in 1..Len(pictures) |-> BaselineObject(pictures[x])]
    /\ todo = SortedXrefs(image_xrefs)
    /\ fate = [x \in 1..Len(pictures) |-> "pending"]
    /\ processed = 0
    /\ out = NoDocument

Max(a, b) == IF a >= b THEN a ELSE b

\* mutant: the scaled dimension is not kept at 1 or more
ScaledDimUnclamped(d, s) == (d * s) \div ScaleOne

\* max(1, int(d * scale))
ScaledDim(d, s) == Max(1, (d * s) \div ScaleOne)

\* new_w, new_h
NewWidth(pic, s) == IF s < ScaleOne THEN ScaledDim(pic.width, s) ELSE pic.width
NewHeight(pic, s) == IF s < ScaleOne THEN ScaledDim(pic.height, s) ELSE pic.height

\* pil_img.mode after lines 297-308
NormalizedMode(m) ==
    IF m = "CMYK" THEN "RGB"
    ELSE IF m = "RGBA" THEN "RGB"
    ELSE IF m \notin {"RGB", "L"} THEN "RGB"
    ELSE m

\* what lines 297-308 do with an alpha channel: RGBA is pasted on white,
\* convert("RGB") drops the alpha of any other mode
AlphaAfter(m) ==
    IF m = "RGBA" THEN "flattened"
    ELSE IF m \in AlphaModes THEN "dropped"
    ELSE "none"

\* pil_img.save(buf, format="JPEG", quality=quality, optimize=True)
JpegBytes(pic, q, s) ==
    [ format |-> "jpeg", quality |-> q, width |-> NewWidth(pic, s),
      height |-> NewHeight(pic, s), mode |-> NormalizedMode(pic.mode),
      alpha |-> AlphaAfter(pic.mode) ]

\* doc.update_stream(xref, data, compress=c): with compress set the library
\* stores the data zlib-wrapped
UpdateStream(obj, data, c) == [obj EXCEPT !.stream = data, !.zlib = (c # 0)]

\* mutant: every re-encoded image is declared RGB
ColorSpaceAlwaysRGB(m) == "/DeviceRGB"

\* /DeviceGray if pil_img.mode == "L" else /DeviceRGB
ColorSpaceOf(m) == IF m = "L" THEN "/DeviceGray" ELSE "/DeviceRGB"

\* the xref_set_key calls of lines 319-327
SetKeys(obj, w, h, m) ==
    [obj EXCEPT !.Filter = "/DCTDecode", !.Width = w, !.Height = h,
                !.ColorSpace = ColorSpaceOf(m),
                !.BitsPerComponent = JpegBitsPerComponent,
                !.DecodeParms = "null"]

\* the continue statements of lines 266-278
Skips(pic) ==
    \/ pic.bytes = 0
    \/ pic.bytes < SmallImageBytes
    \/ pic.ImageMask

\* lines 280-283: the test for a soft mask does nothing
IsSkippedSoftMask(x) == FALSE

\* the searches call _rebuild_pdf_with_quality(source_bytes, quality=mid) and
\* (source_bytes, quality=quality, scale=mid): is_cancelled is not handed on
SearchPassesPoll == FALSE

\* what can happen to one image inside the try block
ImageOutcomes ==
    {"extract_raises", "decode_raises", "resample_raises", "encode_raises", "done"}

\* mutant: an exception inside the try block leaves the call
ImageErrorsPropagate == FALSE

\* except Exception: pass
SwallowsImageErrors == TRUE

\* one iteration of the loop over sorted(image_xrefs), lines 258-338
ReencodeImage ==
    /\ rpc = "loop"
    /\ todo # <<>>
    /\ UNCHANGED << pc, inputFile, CallerVars, config, cancelled, cancelAt, cancelTrials, original_size,
                    pages, lossless_bytes, images, image_count, source_bytes, SearchVars,
                    result_bytes, ret_param, result, outFile, writes, reports, trials,
                    losslessRuns, inventoryRuns, qsize, ssize >>
    /\ UNCHANGED << quality, scale, pollPassed, pictures, softMask, image_xrefs >>
    /\ LET x == Head(todo)
           pic == pictures[x]
       IN  IF pollPassed /\ CheckCancel
             THEN /\ rpc' = "returned"
                  /\ out' = NoDocument
                  /\ UNCHANGED << objs, todo, fate, processed >>
             ELSE /\ todo' = Tail(todo)
                  /\ \E o \in ImageOutcomes :
                       /\ o = "resample_raises" => scale < ScaleOne
                       /\ IF o = "extract_raises"
                               \/ (o # "done" /\ ~Skips(pic) /\ ~IsSkippedSoftMask(x))
                            THEN IF SwallowsImageErrors
                                   THEN /\ fate' = [fate EXCEPT ![x] = "failed"]
                                        /\ processed' = processed + 1
                                        /\ UNCHANGED << rpc, objs, out >>
                                   ELSE /\ rpc' = "raised"
                                        /\ UNCHANGED << objs, fate, processed, out >>
                            ELSE IF Skips(pic) \/ IsSkippedSoftMask(x)
                            THEN /\ fate' = [fate EXCEPT ![x] = "skipped"]
                                 /\ UNCHANGED << rpc, objs, processed, out >>
                            ELSE /\ objs' = [objs EXCEPT ![x] =
                                        SetKeys(UpdateStream(@, JpegBytes(pic, quality, scale),
                                                             UpdateStreamCompress),
                                                NewWidth(pic, scale), NewHeight(pic, scale),
                                                NormalizedMode(pic.mode))]
                                 /\ fate' = [fate EXCEPT ![x] = "rewritten"]
                                 /\ processed' = processed + 1
                                 /\ UNCHANGED << rpc, out >>

\* mutant: the save deflates the streams
SaveDeflateOn == TRUE

\* doc.save(out_buf, garbage=4, deflate=False)
SaveDeflate == FALSE

\* what doc.save stores of one image object: with deflate set, a stream not
\* yet compressed by zlib is wrapped, and a JPEG stream keeps its declared filter
SaveObject(obj, deflate) ==
    [obj EXCEPT !.zlib = @ \/ (deflate /\ obj.stream.format = "jpeg")]

\* lines 340-347
Save ==
    /\ rpc = "loop"
    /\ todo = <<>>
    /\ UNCHANGED << pc, inputFile, CallerVars, config, cancelled, cancelAt, cancelTrials, original_size,
                    pages, lossless_bytes, images, image_count, source_bytes, SearchVars,
                    result_bytes, ret_param, result, outFile, writes, reports, trials,
                    losslessRuns, inventoryRuns, qsize, ssize >>
    /\ UNCHANGED << quality, scale, pollPassed, pictures, softMask, image_xrefs,
                    objs, todo, fate, processed >>
    /\ \/ /\ rpc' = "returned"
          /\ out' = SavedDocument([x \in 1..Len(objs) |-> SaveObject(objs[x], SaveDeflate)])
       \/ /\ rpc' = "raised"          \* doc.save raises
          /\ out' = out

NextReencode == ReencodeImage \/ Save \/ Cancel

SpecReencode == InitReencode /\ [][NextReencode]_vars

\* ============================================ CompressWorker.run around it
CompressVars ==
    << pc, inputFile, config, cancelled, cancelAt, cancelTrials, original_size,
       pages, lossless_bytes, images, image_count, source_bytes, SearchVars,
       result_bytes, ret_param, result, outFile, writes, reports, trials,
       losslessRuns, inventoryRuns, qsize, ssize >>

\* mutant: run() emits whatever the flag says
WorkerSilencedNever == FALSE

\* `if not self._cancelled:` in front of both emits
WorkerSilenced == cancelled

\* mutant: the except branch emits finished as well
SignalAlwaysFinished(p) == "finished"

\* finished.emit(result) after a return, error.emit("Unexpected error: ...")
\* in the except branch
SignalFor(p) == IF p = "done" THEN "finished" ELSE "error"

\* compress() has returned or raised: run() reads self._cancelled
CheckFlag ==
    /\ pc \in {"done", "raised"}
    /\ signal = "pending"
    /\ signal' = IF WorkerSilenced THEN "dropped" ELSE "emitting"
    /\ UNCHANGED << CompressVars, ReencodeVars, run, earlier, WidgetVars >>

\* the emit that follows a flag read as unset
EmitSignal ==
    /\ signal = "emitting"
    /\ signal' = SignalFor(pc)
    /\ UNCHANGED << CompressVars, ReencodeVars, run, earlier, WidgetVars >>

\* cancel() called from the UI thread after compress() has ended and before
\* run() has emitted
CancelLate ==
    /\ pc \in {"done", "raised"}
    /\ signal \in {"pending", "emitting"}
    /\ ~cancelled
    /\ cancelled' = TRUE
    /\ cancelAt' = pc
    /\ cancelTrials' = Len(trials)
    /\ UNCHANGED << pc, inputFile, ReencodeVars, CallerVars, config, original_size, pages,
                    lossless_bytes, images, image_count, source_bytes, SearchVars,
                    result_bytes, ret_param, result, outFile, writes, reports, trials,
                    losslessRuns, inventoryRuns, qsize, ssize >>

NextWorker == Next \/ CheckFlag \/ EmitSignal \/ CancelLate

\* one iteration per search, no tolerance: every way compress() ends is there
InitWorker ==
    /\ Init
    /\ config.max_iterations = 1
    /\ config.binary_search_tolerance_bytes = 0

SpecWorker == InitWorker /\ [][NextWorker]_vars

\* ===================================== a second request on the first's output
\* the target two below the largest size, so that a file can be over the target
\* by one or by two; one iteration per search
RerunConfigs ==
    { [c EXCEPT !.target_size_bytes = MaxSize - 2] :
        c \in { k \in Configs : k.max_iterations = 1 /\ k.binary_search_tolerance_bytes = 0 } }

InitRerun ==
    /\ pc = "start"
    /\ inputFile \in InputFiles
    /\ config \in RerunConfigs
    /\ RequestBlank
    /\ ReencoderIdle
    /\ CallerIdle

\* the file a successful result names: the input itself when already small,
\* otherwise what _write_bytes stored
OutputSize == IF result.already_small THEN original_size ELSE outFile.size

\* compress() is called again, by a new worker, with the same targets and with
\* input_path naming the file the first success produced
RunAgain ==
    /\ run = 1
    /\ pc = "done"
    /\ result.success
    /\ run' = 2
    /\ earlier' = [result |-> result, size |-> OutputSize, images |-> images]
    /\ pc' = "start"
    /\ inputFile' = IF result.already_small THEN inputFile ELSE "pdf"
    /\ cancelled' = FALSE /\ cancelAt' = "" /\ cancelTrials' = 0
    /\ original_size' = 0 /\ pages' = 0
    /\ lossless_bytes' = NoBytes /\ images' = <<>> /\ image_count' = 0
    /\ source_bytes' = NoBytes
    /\ lo' = 0 /\ hi' = 0 /\ mid' = 0 /\ iteration' = 0
    /\ best_result' = NoBytes /\ best_param' = 0
    /\ result_bytes' = NoBytes /\ ret_param' = 0
    /\ result' = BlankResult
    /\ outFile' = Absent /\ writes' = 0
    /\ reports' = <<>> /\ trials' = <<>>
    /\ losslessRuns' = 0 /\ inventoryRuns' = 0
    /\ qsize' = EmptyFn /\ ssize' = EmptyFn
    /\ UNCHANGED << config, signal, ReencodeVars, WidgetVars >>

NextRerun == Next \/ RunAgain

SpecRerun == InitRerun /\ [][NextRerun]_vars

\* ===================================== CompressWidget and its worker threads
\* the file the user drops or browses to; it is over the target and valid
DroppedFile == "a.pdf"

InitWidget ==
    /\ pc = "start"
    /\ inputFile = "pdf"
    /\ config = DefaultConfig
    /\ RequestBlank
    /\ ReencoderIdle
    /\ CallerIdle

\* get_output_path: the first of name_compressed.pdf, name_compressed(1).pdf,
\* ... that does not exist; names are numbered 0, 1, ...
GetOutputPath(existing) ==
    CHOOSE n \in 0..Cardinality(existing) :
        /\ n \notin existing
        /\ \A m \in 0..(n - 1) : m \in existing

\* run() is still executing in the worker's thread
IsRunning(w) == workers[w].state \in {"running", "committed", "returned"}

OtherVars == << CompressVars, ReencodeVars, signal, run, earlier >>

\* _on_file_selected: a drop is accepted whether or not a file is shown
OnFileSelected ==
    /\ ui = "idle"
    /\ current_file' = DroppedFile
    /\ button' = TRUE
    /\ UNCHANGED << worker, workers, disk, ui, OtherVars >>

\* _on_file_removed
OnFileRemoved ==
    /\ ui = "idle"
    /\ current_file # ""
    /\ current_file' = ""
    /\ button' = FALSE
    /\ UNCHANGED << worker, workers, disk, ui, OtherVars >>

\* _on_compress_clicked, past the size and disk-space tests
OnCompressClicked ==
    /\ ui = "idle"
    /\ button
    /\ current_file # ""
    /\ Len(workers) < MaxWorkers
    /\ button' = FALSE
    /\ workers' = Append(workers, [state |-> "running", cancelled |-> FALSE,
                                    path |-> GetOutputPath(disk)])
    /\ worker' = Len(workers) + 1
    /\ UNCHANGED << current_file, disk, ui, OtherVars >>

\* _on_cancel_clicked up to wait(5000)
OnCancelClicked ==
    /\ ui = "idle"
    /\ IF worker # 0
         THEN /\ workers' = [workers EXCEPT ![worker].cancelled = TRUE]
              /\ ui' = "waiting"
              /\ UNCHANGED button
         ELSE /\ button' = TRUE
              /\ UNCHANGED << workers, ui >>
    /\ UNCHANGED << current_file, worker, disk, OtherVars >>

\* wait(5000) comes back, the thread finished or the five seconds over
WaitReturns ==
    /\ ui = "waiting"
    /\ ui' = "idle"
    /\ worker' = 0
    /\ button' = TRUE
    /\ UNCHANGED << current_file, workers, disk, OtherVars >>

\* compress() polls is_cancelled, finds it set and returns "Cancelled."
WorkerPollsCancelled ==
    \E w \in DOMAIN workers :
        /\ workers[w].state = "running"
        /\ workers[w].cancelled
        /\ workers' = [workers EXCEPT ![w].state = "returned"]
        /\ UNCHANGED << current_file, button, worker, disk, ui, OtherVars >>

\* compress() passes its last poll with the flag unset
WorkerPassesLastPoll ==
    \E w \in DOMAIN workers :
        /\ workers[w].state = "running"
        /\ ~workers[w].cancelled
        /\ workers' = [workers EXCEPT ![w].state = "committed"]
        /\ UNCHANGED << current_file, button, worker, disk, ui, OtherVars >>

\* compress() returns with or without having written config.output_path
WorkerReturns ==
    \E w \in DOMAIN workers :
        /\ workers[w].state = "committed"
        /\ workers' = [workers EXCEPT ![w].state = "returned"]
        /\ \/ disk' = disk \cup {workers[w].path}
           \/ disk' = disk
        /\ UNCHANGED << current_file, button, worker, ui, OtherVars >>

\* run() after compress(): emit unless cancelled, then the thread ends
WorkerEmits ==
    \E w \in DOMAIN workers :
        /\ workers[w].state = "returned"
        /\ workers' = [workers EXCEPT ![w].state =
                            IF workers[w].cancelled THEN "ended" ELSE "emitted"]
        /\ UNCHANGED << current_file, button, worker, disk, ui, OtherVars >>

\* _on_compress_finished / _on_compress_error, run in the UI thread
OnCompressFinished ==
    \E w \in DOMAIN workers :
        /\ ui = "idle"
        /\ workers[w].state = "emitted"
        /\ workers' = [workers EXCEPT ![w].state = "ended"]
        /\ button' = TRUE
        /\ worker' = 0
        /\ UNCHANGED << current_file, disk, ui, OtherVars >>

NextWidget ==
    \/ OnFileSelected \/ OnFileRemoved \/ OnCompressClicked
    \/ OnCancelClicked \/ WaitReturns
    \/ WorkerPollsCancelled \/ WorkerPassesLastPoll
    \/ WorkerReturns \/ WorkerEmits \/ OnCompressFinished

SpecWidget == InitWidget /\ [][NextWidget]_vars

\* ======================================================== the claims
Returned == pc = "done"
Target == config.target_size_bytes
IsCancelledResult == result = Failure("Cancelled.")
QualityRange == config.min_quality..config.max_quality

\* ----------------------------------------------------------------- C1
\* C1 (as stated): every result with success=True has
\* compressed_size <= target_size_bytes, on every success route.
C1_EverySuccessMeetsBudget ==
    (Returned /\ result.success) => result.compressed_size <= Target

\* C1 (amended): every success result other than text-only has
\* compressed_size <= target_size_bytes; a text-only success carries the
\* lossless size, which is over the target.
C1_SuccessMeetsBudgetUnlessTextOnly ==
    (Returned /\ result.success) =>
        IF result.text_only
          THEN /\ result.compressed_size = lossless_bytes.size
               /\ result.compressed_size > Target
          ELSE result.compressed_size <= Target

C1_Witness ==
    /\ Returned /\ result.success /\ ~result.text_only
    /\ result.images_found > 0
    /\ result.scale_used < ScaleOne
    /\ result.compressed_size <= Target

\* ----------------------------------------------------------------- C2
\* C2: when the original size is <= target_size_bytes, compress() returns the
\* already-small result (success, already_small, compressed_size ==
\* original_size) and does nothing else: no write, no lossless optimization,
\* no inventory, no trial, no progress report.
C2_AlreadySmallDoesNothingElse ==
    (pc # "start" /\ original_size # 0 /\ original_size <= Target) =>
        /\ Returned
        /\ result.success /\ result.already_small
        /\ result.compressed_size = original_size
        /\ result.original_size = original_size
        /\ ~result.target_impossible /\ ~result.text_only
        /\ writes = 0 /\ outFile = Absent
        /\ losslessRuns = 0 /\ inventoryRuns = 0
        /\ trials = <<>> /\ reports = <<>>

C2_Witness ==
    /\ Returned /\ result.already_small
    /\ original_size = Target

\* ----------------------------------------------------------------- C3
\* C3: when compress() reaches the inventory with a document none of whose
\* images is recompressible, it returns text-only with
\* compressed_size == lossless_size, and no quality or scale trial is run.
C3_NoRecompressibleImageIsTextOnly ==
    (inventoryRuns > 0 /\ Eligible(images) = {} /\ ~cancelled) =>
        /\ trials = <<>>
        /\ pc \in {"done", "raised"}
        /\ Returned => /\ result.text_only
                       /\ result.compressed_size = lossless_bytes.size

\* ----------------------------------------------------------------- C4
\* C4: every result returned is in exactly one of the states success,
\* target-impossible, plain failure (a failure message without either flag);
\* a success carries no failure message.
IsSuccess == result.success
IsImpossible == result.target_impossible
IsPlainFailure == ~result.success /\ ~result.target_impossible /\ result.error_message # ""

C4_ExactlyOneOutcome ==
    Returned =>
        /\ IsSuccess \/ IsImpossible \/ IsPlainFailure
        /\ ~(IsSuccess /\ IsImpossible)
        /\ IsSuccess => result.error_message = ""
        /\ IsImpossible => result.minimum_achievable_size = result.compressed_size

C4_Witness ==
    /\ Returned /\ IsImpossible /\ ~IsSuccess
    /\ result.error_message # ""

\* ----------------------------------------------------------------- C5
\* C5: if the cancel flag is set after a long-running step has started and
\* before compress() returns, compress() returns the cancelled outcome.
AfterLongRunningStart ==
    { "lossless", "inventory", "q_loop", "q_trial", "after_q",
      "s_loop", "s_trial", "after_s", "min_trial" }

C5_CancellationAlwaysWins ==
    (Returned /\ cancelled /\ cancelAt \in AfterLongRunningStart) => IsCancelledResult

\* ----------------------------------------------------------------- C6
DuringQualitySearch == cancelled /\ cancelAt \in {"q_loop", "q_trial"}

\* C6 (as stated): when the flag is set while the quality search is running,
\* no new trial starts after the one in progress, the search returns no
\* result even if an earlier trial fitted, compress() returns the cancelled
\* outcome and the output file is never written.
C6_CancelledSearchReturnsNothing ==
    DuringQualitySearch =>
        /\ Len(trials) <= cancelTrials + (IF cancelAt = "q_trial" THEN 1 ELSE 0)
        /\ pc = "after_q" => result_bytes = NoBytes
        /\ Returned => IsCancelledResult
        /\ writes = 0 /\ outFile = Absent

\* C6 (amended): when the flag is set while the quality search is running, no
\* new trial starts after the one in progress; the search returns no result,
\* unless the loop had already ended or ends with the trial in progress, and
\* then it returns its best-so-far; compress() returns no outcome but
\* cancelled, starts no later phase and never writes the output file.
LoopEnded ==
    \/ CloseEnough(best_result)
    \/ lo > hi
    \/ iteration >= config.max_iterations

C6_CancelDuringQualitySearch ==
    DuringQualitySearch =>
        /\ Len(trials) <= cancelTrials + (IF cancelAt = "q_trial" THEN 1 ELSE 0)
        /\ pc \in {"q_loop", "q_trial", "after_q", "done", "raised"}
        /\ (pc = "q_trial") => (cancelAt = "q_trial" /\ Len(trials) = cancelTrials)
        /\ (pc = "after_q" /\ result_bytes # NoBytes) =>
                (result_bytes = best_result /\ LoopEnded)
        /\ (pc = "after_q" /\ ~LoopEnded) => result_bytes = NoBytes
        /\ Returned => IsCancelledResult
        /\ writes = 0 /\ outFile = Absent

C6_Witness ==
    /\ DuringQualitySearch /\ Returned
    /\ cancelAt = "q_trial"
    /\ HasCandidate(best_result)
    /\ result_bytes = NoBytes
    /\ Len(trials) = cancelTrials + 1

\* ----------------------------------------------------------------- C7
\* C7: the output path is written at most once, a write is followed by the
\* return of a success result, and nothing is written to the output path on
\* any other outcome (already-small, cancelled, failed, target-impossible).
C7_OutputWrittenOnlyOnSuccess ==
    /\ writes <= 1
    /\ outFile # Absent =>
          /\ Returned
          /\ result.success /\ ~result.already_small
          /\ writes = 1

\* ----------------------------------------------------------------- C8
\* C8: the phases run in the order already-small check, lossless
\* optimization, inventory, quality search, scale search, impossible
\* computation; lossless-sufficient ends before any inventory or trial, the
\* scale search starts only after an uncancelled quality search returned no
\* candidate, the impossible computation only after both searches did.
PhaseEdges ==
    { <<"start", "open">>, <<"open", "lossless">>, <<"lossless", "inventory">>,
      <<"inventory", "q_loop">>, <<"q_loop", "q_trial">>, <<"q_trial", "q_loop">>,
      <<"q_loop", "after_q">>, <<"q_trial", "after_q">>, <<"after_q", "s_loop">>,
      <<"s_loop", "s_trial">>, <<"s_trial", "s_loop">>, <<"s_loop", "after_s">>,
      <<"s_trial", "after_s">>, <<"after_s", "min_trial">> }

TrialsOf(phase) == { i \in 1..Len(trials) : trials[i].phase = phase }

NoTrialFit(phase) ==
    /\ TrialsOf(phase) # {}
    /\ \A i \in TrialsOf(phase) : trials[i].size > Target

C8_PhaseOrder ==
    [][ /\ pc' # pc =>
            \/ <<pc, pc'>> \in PhaseEdges
            \/ pc' \in {"done", "raised"}
        /\ (pc = "lossless" /\ pc' = "done") =>
                (inventoryRuns' = 0 /\ trials' = <<>>)
        /\ (pc' = "inventory") => (losslessRuns' = 1 /\ inventoryRuns' = 0)
        /\ (pc' = "q_loop" /\ pc = "inventory") =>
                (inventoryRuns' = 1 /\ trials' = <<>>)
        /\ (pc' = "s_loop" /\ pc = "after_q") =>
                /\ ~cancelled
                /\ result_bytes = NoBytes /\ ret_param # 0
                /\ NoTrialFit("quality")
                /\ TrialsOf("scale") = {} /\ TrialsOf("minimum") = {}
        /\ (pc' = "min_trial") =>
                /\ ~cancelled
                /\ result_bytes = NoBytes /\ ret_param # 0
                /\ NoTrialFit("quality") /\ NoTrialFit("scale")
                /\ TrialsOf("minimum") = {}
      ]_vars

C8_Witness ==
    /\ Returned /\ IsImpossible
    /\ TrialsOf("quality") # {} /\ TrialsOf("scale") # {}
    /\ TrialsOf("minimum") # {}

\* ----------------------------------------------------------------- C9
\* C9: the lossless baseline is computed exactly once per request, and every
\* re-encode (quality trial, scale trial, minimum-size computation) takes that
\* baseline as its input, never the output of an earlier trial; two re-encodes
\* at the same (quality, scale) give the same size.
C9_TrialsReadTheBaseline ==
    /\ losslessRuns <= 1
    /\ trials # <<>> =>
          /\ losslessRuns = 1
          /\ lossless_bytes.tag = "lossless"
          /\ source_bytes = lossless_bytes
    /\ \A i \in 1..Len(trials) : trials[i].src = "lossless"
    /\ \A i, j \in 1..Len(trials) :
          (trials[i].q = trials[j].q /\ trials[i].s = trials[j].s
             /\ trials[i].size # 0 /\ trials[j].size # 0)
          => trials[i].size = trials[j].size

C9_Witness ==
    /\ Returned
    /\ Len(trials) >= 3
    /\ \E i \in 1..Len(trials) : trials[i].size <= Target
    /\ TrialsOf("scale") # {}

\* ---------------------------------------------------------------- C10
QualitySearchReturned == pc = "after_q" /\ ret_param # 0
Monotone ==
    \A a, b \in DOMAIN qsize : a <= b => qsize[a] <= qsize[b]
SomeQualityFits == \E q \in QualityRange : qsize[q] <= Target

\* C10 (as stated): with a size non-decreasing in quality and
\* max_iterations >= 1, an uncancelled quality search returns "no candidate"
\* only if no quality in [min_quality, max_quality] fits the target.
C10_NoCandidateOnlyIfNoneFits ==
    (QualitySearchReturned /\ Monotone /\ result_bytes = NoBytes) => ~SomeQualityFits

\* C10 (amended): the same, for every config whose iteration budget covers
\* the range, 2^max_iterations > max_quality - min_quality + 1: then the
\* search ends with lo > hi when it has no candidate, and it has none only if
\* no quality in the range fits; in particular it returns a candidate when
\* min_quality fits.
BudgetCoversRange ==
    2 ^ config.max_iterations > config.max_quality - config.min_quality + 1

C10_NoCandidateOnlyIfNoneFitsWithinBudget ==
    (QualitySearchReturned /\ Monotone /\ BudgetCoversRange) =>
        /\ result_bytes = NoBytes => (lo > hi /\ ~SomeQualityFits)
        /\ qsize[config.min_quality] <= Target => HasCandidate(result_bytes)

C10_Witness ==
    /\ QualitySearchReturned /\ Monotone /\ BudgetCoversRange
    /\ config.max_quality - config.min_quality >= 2
    /\ qsize[config.min_quality] <= Target
    /\ qsize[config.max_quality] > Target
    /\ HasCandidate(result_bytes)
    /\ result_bytes.q = config.min_quality

\* ---------------------------------------------------------------- C11
\* the (quality, scale) pairs whose size the codec has revealed
KnownPairs == { <<q, ScaleOne>> : q \in DOMAIN qsize } \cup DOMAIN ssize
SizeAt(p) == IF p[2] >= ScaleOne THEN qsize[p[1]] ELSE ssize[p]
InBounds(p) ==
    /\ p[1] \in QualityRange
    /\ config.min_scale <= p[2] /\ p[2] <= config.max_scale
CodecMonotone ==
    \A a, b \in KnownPairs :
        (a[1] <= b[1] /\ a[2] <= b[2]) => SizeAt(a) <= SizeAt(b)

\* C11: with a size non-decreasing in quality and in scale, compress()
\* reports target-impossible only when no (quality, scale) pair within the
\* configured bounds meets the target; in particular the reported
\* minimum_achievable_size is strictly greater than the target.
C11_ImpossibleOnlyIfNoPairFits ==
    (Returned /\ IsImpossible /\ CodecMonotone) =>
        /\ result.minimum_achievable_size > Target
        /\ \A p \in KnownPairs : InBounds(p) => SizeAt(p) > Target

\* ---------------------------------------------------------------- C12
NoQualityFits == DOMAIN qsize # {} /\ ~SomeQualityFits
LastTrial == trials[Len(trials)]

\* C12: when no quality of the configured range meets the target at full
\* scale, an uncancelled compress() gets no candidate from the quality
\* search, runs the scale search, and returns either a success with
\* scale_used < 1.0 and quality_used == min_quality, or target-impossible
\* with success=False, nothing written, and minimum_achievable_size ==
\* compressed_size == the size of one re-encode of the baseline at
\* (min_quality, min_scale).
C12_ScaleSearchOrImpossible ==
    (NoQualityFits /\ ~cancelled) =>
        /\ pc = "after_q" => result_bytes = NoBytes
        /\ Returned =>
            /\ TrialsOf("quality") # {} /\ TrialsOf("scale") # {}
            /\ \/ /\ IsSuccess /\ ~IsImpossible
                  /\ result.scale_used < ScaleOne
                  /\ result.quality_used = config.min_quality
                  /\ TrialsOf("minimum") = {}
                  /\ outFile = result_bytes
               \/ /\ IsImpossible /\ ~IsSuccess
                  /\ Cardinality(TrialsOf("minimum")) = 1
                  /\ LastTrial = Trial("minimum", "lossless", config.min_quality,
                                       config.min_scale, result.compressed_size)
                  /\ result.minimum_achievable_size = result.compressed_size
                  /\ writes = 0 /\ outFile = Absent

C12_Witness ==
    /\ NoQualityFits /\ ~cancelled
    /\ Returned /\ IsImpossible
    /\ result.minimum_achievable_size # lossless_bytes.size
    /\ Cardinality(TrialsOf("scale")) >= 2

\* ---------------------------------------------------------------- C13
QualityBudget == config.max_iterations
ScaleBudget == Min(config.max_iterations, ScaleIterCap)
StopCondition(budget) ==
    \/ lo > hi
    \/ CloseEnough(best_result)
    \/ iteration >= budget
\* the trials a search that has returned ran: the loop index is one ahead
\* when the budget ended the loop, and is the last trial's when a break did
TrialsRun(budget) == IF iteration >= budget THEN budget ELSE iteration + 1

\* C13: whatever the sizes the trials return and whenever the flag is set,
\* the quality search runs at most max_iterations trials and the scale search
\* at most min(max_iterations, 8); a search goes on to another iteration only
\* while lo <= hi, the best candidate is not within tolerance and budget is
\* left, and an uncancelled search returns after the first trial that ends
\* one of these.
C13_SearchesStopWithinBudget ==
    /\ Cardinality(TrialsOf("quality")) <= QualityBudget
    /\ Cardinality(TrialsOf("scale")) <= ScaleBudget
    /\ pc \in {"q_loop", "q_trial"} => Cardinality(TrialsOf("quality")) = iteration
    /\ pc \in {"s_loop", "s_trial"} => Cardinality(TrialsOf("scale")) = iteration
    /\ pc = "q_trial" => iteration < QualityBudget
    /\ pc = "s_trial" => iteration < ScaleBudget
    /\ (pc = "q_loop" /\ iteration < QualityBudget) =>
            (lo <= hi /\ ~CloseEnough(best_result))
    /\ (pc = "s_loop" /\ iteration < ScaleBudget) =>
            (lo <= hi /\ ~CloseEnough(best_result))
    /\ (pc = "after_q" /\ ret_param # 0) =>
            (StopCondition(QualityBudget)
               /\ Cardinality(TrialsOf("quality")) = TrialsRun(QualityBudget))
    /\ (pc = "after_s" /\ ret_param # 0) =>
            (StopCondition(ScaleBudget)
               /\ Cardinality(TrialsOf("scale")) = TrialsRun(ScaleBudget))

C13_Witness ==
    /\ pc = "after_s" /\ ret_param # 0
    /\ lo <= hi /\ ~CloseEnough(best_result)
    /\ config.max_iterations >= 2
    /\ Cardinality(TrialsOf("quality")) = QualityBudget
    /\ Cardinality(TrialsOf("scale")) = ScaleBudget

\* ---------------------------------------------------------------- C14
\* C14: the percentages passed to on_progress never decrease from one call
\* to the next, across all phases of one request and for every
\* max_iterations >= 1.
C14_ProgressNeverDecreases ==
    \A i, j \in 1..Len(reports) : i <= j => reports[i] <= reports[j]

C14_Witness ==
    /\ Returned /\ IsImpossible
    /\ config.max_iterations >= 2
    /\ Len(reports) >= 9
    /\ reports[Len(reports)] = 95

\* ---------------------------------------------------------------- C19
Unreadable == {"unopenable", "encrypted"}
OpenFailureMessage ==
    IF inputFile = "unopenable" THEN "Cannot open PDF" ELSE "PDF is password-protected."
NothingAttempted ==
    /\ losslessRuns = 0 /\ inventoryRuns = 0 /\ trials = <<>>
    /\ writes = 0 /\ outFile = Absent

\* C19 (as stated): for every input that cannot be opened or is encrypted,
\* whatever its size relative to the target, compress() returns a failure
\* with a specific message, never a success, and attempts no lossless
\* optimization, trial or write.
C19_UnreadableInputAlwaysFails ==
    (inputFile \in Unreadable /\ pc # "start") =>
        /\ NothingAttempted
        /\ pc \in {"open", "done"}
        /\ Returned => /\ ~IsSuccess
                       /\ result.error_message = OpenFailureMessage

\* C19 (amended): for every input larger than the target that cannot be
\* opened or is encrypted, compress() returns a failure with a specific
\* message, never a success, and attempts no lossless optimization, trial or
\* write; an input at or under the target is reported already-small before it
\* is opened.
C19_OversizeUnreadableInputFails ==
    (inputFile \in Unreadable /\ pc # "start") =>
        /\ NothingAttempted
        /\ pc \in {"open", "done"}
        /\ Returned =>
            IF original_size <= Target
              THEN IsSuccess /\ result.already_small
              ELSE /\ ~IsSuccess /\ ~IsImpossible
                   /\ result = Failure(OpenFailureMessage)

C19_Witness ==
    /\ inputFile = "encrypted" /\ Returned
    /\ original_size > Target
    /\ cancelled
    /\ result.error_message = "PDF is password-protected."

\* ---------------------------------------------------------------- C20
\* the input opened, is over the target, and len(doc) was read as 0
ZeroPageInputOpened ==
    /\ inputFile = "pdf" /\ original_size > Target
    /\ pc \notin {"start", "open"}
    /\ pages = 0

\* C20: for every zero-page input, compress() rejects the request with a
\* failure outcome before it runs the lossless optimization, the inventory
\* or any trial.
C20_ZeroPageInputRejected ==
    ZeroPageInputOpened =>
        /\ Returned /\ IsPlainFailure
        /\ NothingAttempted

\* ================== claims about one call of _rebuild_pdf_with_quality
TrialReturnedBytes == rpc = "returned" /\ out.tag = "pdf"
HasNewPayload(o) == o.stream.format = "jpeg"
Unchanged(o, pic) == o = BaselineObject(pic)

\* ---------------------------------------------------------------- C15
\* C15: in every byte stream a re-encode returns, an image whose payload was
\* replaced by JPEG bytes is stored without a zlib wrapper, neither by
\* update_stream (compress=0) nor by the final save (deflate=False): the
\* stored payload is the JPEG bytes the declared filter /DCTDecode names.
C15_NoSecondCompression ==
    /\ \A x \in 1..Len(objs) : HasNewPayload(objs[x]) => ~objs[x].zlib
    /\ TrialReturnedBytes =>
          \A x \in 1..Len(out.objs) :
              HasNewPayload(out.objs[x]) =>
                  /\ ~out.objs[x].zlib
                  /\ out.objs[x].Filter = "/DCTDecode"
                  /\ out.objs[x].stream = JpegBytes(pictures[x], quality, scale)

C15_Witness ==
    /\ TrialReturnedBytes
    /\ Len(out.objs) = 2
    /\ HasNewPayload(out.objs[1]) /\ ~HasNewPayload(out.objs[2])

\* ---------------------------------------------------------------- C16
FullyRewritten(o) ==
    /\ HasNewPayload(o)
    /\ o.Filter = "/DCTDecode"
    /\ o.Width = o.stream.width /\ o.Height = o.stream.height
    /\ o.stream.mode \in {"L", "RGB"}
    /\ o.ColorSpace = (IF o.stream.mode = "L" THEN "/DeviceGray" ELSE "/DeviceRGB")
    /\ o.BitsPerComponent = 8
    /\ o.DecodeParms = "null"

C17_ImageFailureIsLocal ==
    /\ \A x \in 1..Len(objs) :
          fate[x] = "failed" => Unchanged(objs[x], pictures[x])
    /\ rpc = "raised" => todo = <<>>
    /\ TrialReturnedBytes =>
          \A x \in image_xrefs :
              /\ fate[x] # "pending"
              /\ fate[x] = "failed" => Unchanged(out.objs[x], pictures[x])
              /\ (fate[x] # "failed" /\ ~Skips(pictures[x])) =>
                    (fate[x] = "rewritten" /\ FullyRewritten(out.objs[x]))

C17_Witness ==
    /\ TrialReturnedBytes
    /\ Len(pictures) = 2
    /\ fate[1] = "failed" /\ ~Skips(pictures[1])
    /\ fate[2] = "rewritten"

\* ---------------------------------------------------------------- C18
\* C18: an image that is another image's soft mask is never re-encoded on its
\* own: its payload and keys change only together with its parent's, or not
\* at all.
C18_SoftMaskNotReencodedAlone ==
    softMask # 0 =>
        \/ Unchanged(objs[softMask], pictures[softMask])
        \/ HasNewPayload(objs[softMask - 1])

\* ---------------------------------------------------------------- C22
\* the call is one a search makes for a trial
IsSearchTrial == pollPassed = SearchPassesPoll

\* C22: during a search trial the flag is polled before each image's
\* re-encode: an iteration of the image loop that starts with the flag set
\* re-encodes nothing and makes the trial unwind with no result, so that at
\* most the image in progress when the flag was set is still re-encoded.
C22_TrialPollsBeforeEachImage ==
    [][ (IsSearchTrial /\ cancelled /\ rpc = "loop" /\ todo # <<>>) =>
            (objs' = objs /\ rpc' = "returned" /\ out' = NoDocument) ]_vars

\* ---------------------------------------------------------------- C24
\* round(d * s), halves to the even neighbour
Round(d, s) ==
    LET whole == (d * s) \div ScaleOne
        twice == 2 * ((d * s) % ScaleOne)
    IN  IF twice > ScaleOne THEN whole + 1
        ELSE IF twice < ScaleOne THEN whole
        ELSE IF whole % 2 = 0 THEN whole ELSE whole + 1

\* floor(d * s)
Floor(d, s) == (d * s) \div ScaleOne

DimsAre(o, w, h) ==
    /\ o.stream.width = w /\ o.stream.height = h
    /\ o.Width = w /\ o.Height = h

C25_AlphaIsFlattened ==
    \A x \in 1..Len(objs) :
        HasNewPayload(objs[x]) =>
            /\ objs[x].stream.mode \in {"L", "RGB"}
            /\ objs[x].stream.alpha \in {"none", "flattened"}
            /\ pictures[x].mode \in AlphaModes => objs[x].stream.alpha = "flattened"

\* ---------------------------------------------------------------- C26
FittingQualities == { q \in QualityRange : qsize[q] <= Target }
HighestFitting == CHOOSE q \in FittingQualities : \A r \in FittingQualities : r <= q
EndedByRange == lo > hi /\ ~CloseEnough(best_result)

\* C26: with a size non-decreasing in quality, an uncancelled quality search
\* that ends because lo > hi (not by the tolerance stop, not by the budget)
\* returns the highest quality of [min_quality, max_quality] whose size is
\* <= target, with the bytes of that quality; one that ends by the tolerance
\* stop returns a size at most the tolerance below the target.
C26_RangeEndReturnsHighestFitting ==
    (QualitySearchReturned /\ Monotone) =>
        /\ EndedByRange =>
              IF SomeQualityFits
                THEN /\ HasCandidate(result_bytes)
                     /\ ret_param = HighestFitting
                     /\ result_bytes.q = HighestFitting
                     /\ result_bytes.size = qsize[HighestFitting]
                ELSE result_bytes = NoBytes
        /\ CloseEnough(result_bytes) =>
              /\ result_bytes.size <= Target
              /\ Target - result_bytes.size <= config.binary_search_tolerance_bytes

C26_Witness ==
    /\ QualitySearchReturned /\ Monotone /\ EndedByRange
    /\ HasCandidate(result_bytes)
    /\ config.min_quality < ret_param /\ ret_param < config.max_quality
    /\ qsize[ret_param + 1] > Target

\* ---------------------------------------------------------------- C27
QualitySearchPcs == {"q_loop", "q_trial", "after_q"}
ScaleSearchPcs == {"s_loop", "s_trial", "after_s"}
ParamOf(phase, tr) == IF phase = "quality" THEN tr.q ELSE tr.s
FittingTrials(phase) ==
    { i \in TrialsOf(phase) : trials[i].size # 0 /\ trials[i].size <= Target }

\* the best-so-far of the search in progress is the result of the fitting
\* trial with the highest parameter
BestIsHighestFit(phase) ==
    IF FittingTrials(phase) = {}
      THEN best_result = NoBytes
      ELSE \E i \in FittingTrials(phase) :
              /\ \A j \in FittingTrials(phase) :
                    ParamOf(phase, trials[j]) <= ParamOf(phase, trials[i])
              /\ best_param = ParamOf(phase, trials[i])
              /\ best_result = Rebuild(lossless_bytes, trials[i].q, trials[i].s,
                                       trials[i].size)
              /\ best_result.size <= Target
              /\ best_param < lo

\* C27: at every iteration of either search the best-so-far candidate, if
\* any, is the byte stream of a trial with size <= target whose parameter is
\* the highest among the trials so far that met the target, and that
\* parameter is below lo; the value returned with the bytes is the parameter
\* that produced them; for any size function.
C27_BestIsHighestFittingTrial ==
    /\ pc \in QualitySearchPcs => BestIsHighestFit("quality")
    /\ pc \in ScaleSearchPcs => BestIsHighestFit("scale")
    /\ (pc = "after_q" /\ HasCandidate(result_bytes)) =>
          (result_bytes = best_result /\ result_bytes.q = ret_param
             /\ result_bytes.s = ScaleOne)
    /\ (pc = "after_s" /\ HasCandidate(result_bytes)) =>
          (result_bytes = best_result /\ result_bytes.s = ret_param
             /\ result_bytes.q = config.min_quality)

C27_Witness ==
    /\ pc = "after_s" /\ HasCandidate(result_bytes)
    /\ Cardinality(FittingTrials("scale")) >= 2
    /\ \E i \in FittingTrials("scale") : trials[i].s < ret_param
    /\ ~Monotone

\* ---------------------------------------------------------------- C28
ScaleInBounds(s) == config.min_scale <= s /\ s <= config.max_scale
TrialsWithinBounds ==
    /\ \A i \in TrialsOf("quality") :
          trials[i].s = ScaleOne /\ trials[i].q \in QualityRange
    /\ \A i \in TrialsOf("scale") :
          trials[i].q = config.min_quality /\ ScaleInBounds(trials[i].s)

\* C28 (as stated): every quality trial uses scale 1.0 and a quality within
\* [min_quality, max_quality], every scale trial uses min_quality and a scale
\* within [min_scale, max_scale]; consequently every success result has
\* quality_used and scale_used within the configured bounds.
C28_SuccessWithinBounds ==
    /\ TrialsWithinBounds
    /\ (Returned /\ IsSuccess) =>
          (result.quality_used \in QualityRange /\ ScaleInBounds(result.scale_used))

\* C28 (amended): the same for the trials; a success of the quality search
\* has quality_used within [min_quality, max_quality] and scale_used 1.0
\* (which is above max_scale when max_scale < 1.0), a success of the scale
\* search has quality_used == min_quality and scale_used within
\* [min_scale, max_scale]; the successes without a search carry
\* quality_used 0 (already-small, text-only) or 100 (lossless-sufficient)
\* and scale_used 1.0.
C28_SearchSuccessWithinBounds ==
    /\ TrialsWithinBounds
    /\ (Returned /\ IsSuccess) =>
          IF TrialsOf("scale") # {}
            THEN /\ result.quality_used = config.min_quality
                 /\ ScaleInBounds(result.scale_used)
            ELSE IF TrialsOf("quality") # {}
            THEN /\ result.quality_used \in QualityRange
                 /\ result.scale_used = ScaleOne
            ELSE /\ result.quality_used =
                        (IF result.already_small \/ result.text_only THEN 0 ELSE 100)
                 /\ result.scale_used = ScaleOne

C28_Witness ==
    /\ Returned /\ IsSuccess
    /\ TrialsOf("scale") # {}
    /\ config.min_scale < result.scale_used
    /\ result.scale_used < config.max_scale
    /\ config.min_quality > 1

\* ---------------------------------------------------------------- C21
Settled == signal \in {"finished", "error", "dropped"}

C29_CancelLeavesNothing ==
    cancelled => (signal \notin {"finished", "error"} /\ outFile = Absent)

\* ---------------------------------------------------------------- C23
SecondReturned == run = 2 /\ pc = "done" /\ ~cancelled

RunningWorkers == { w \in DOMAIN workers : IsRunning(w) }

\* C30 (as stated): a widget has at most one CompressWorker running at any
\* time.
C30_AtMostOneWorkerRunning ==
    Cardinality(RunningWorkers) <= 1

\* workers running together never share an output path (violated as well:
\* get_output_path looks at the directory before the first worker has written)
C30_RunningWorkersHaveOwnPaths ==
    \A v, w \in RunningWorkers : v # w => workers[v].path # workers[w].path


============================================================================
